---- MODULE Spec2Model ----
(***************************************************************************)
(* Batch text-analytics slice of the voice-assistant repository:           *)
(* the output spreadsheet (TranscribeProcessor._init_excel_file,           *)
(* save_to_excel), the per-row pipeline (process_text, IntentAnalyzer,     *)
(* LLMModule.generate), the three runners (process_simple,                 *)
(* process_bulk_fast, process_bulk_optimized) and the resume / progress    *)
(* helpers.  Text is a sequence of one-character strings.                  *)
(***************************************************************************)
EXTENDS Integers, Sequences, FiniteSets, TLC

\* ------------------------------------------------------------------ bounds
MaxRows == 3

MaxLimit == 3

MaxWorkers == 2

MaxRuns == 2

\* ------------------------------------------------------------ text helpers
WS == {" ", "\t", "\n"}

QuoteChars == {"\"", "'"}

PunctChars == {".", ",", ";", ":", "!", "?"}

UpperSeq == <<"A","B","C","D","E","F","G","H","I","J","K","L","M","N","O","P","Q","R","S","T","U","V","W","X","Y","Z">>

LowerSeq == <<"a","b","c","d","e","f","g","h","i","j","k","l","m","n","o","p","q","r","s","t","u","v","w","x","y","z">>

Digits == {"0","1","2","3","4","5","6","7","8","9"}

Range(s) == {s[i] : i \in 1..Len(s)}

\* str.lower() on one character
LowerChar(c) ==
  IF \E i \in 1..26 : UpperSeq[i] = c
  THEN LowerSeq[CHOOSE i \in 1..26 : UpperSeq[i] = c]
  ELSE c

\* str.lower()
Lower(s) == [i \in 1..Len(s) |-> LowerChar(s[i])]

\* a character matched by the regex class \w
IsWordChar(c) == c \in Range(UpperSeq) \cup Range(LowerSeq) \cup Digits \cup {"_"}

RECURSIVE LStrip(_, _)
\* str.lstrip(chars)
LStrip(s, cs) == IF s # <<>> /\ Head(s) \in cs THEN LStrip(Tail(s), cs) ELSE s

RECURSIVE RStrip(_, _)
\* str.rstrip(chars)
RStrip(s, cs) ==
  IF s # <<>> /\ s[Len(s)] \in cs THEN RStrip(SubSeq(s, 1, Len(s) - 1), cs) ELSE s

\* str.strip(chars)
StripSet(s, cs) == RStrip(LStrip(s, cs), cs)

\* str.strip()
Strip(s) == StripSet(s, WS)

\* "not text or not text.strip()" for a cell value (None is the empty text)
IsBlank(s) == Strip(s) = <<>>

\* "sub in s"
Contains(s, sub) ==
  \E i \in 0..(Len(s) - Len(sub)) : SubSeq(s, i + 1, i + Len(sub)) = sub

\* s.startswith(p), case-insensitively
StartsWithCI(s, p) == Len(s) >= Len(p) /\ Lower(SubSeq(s, 1, Len(p))) = Lower(p)

RECURSIVE SplitWS(_)
\* str.split(): the maximal runs of non-whitespace characters
SplitWS(s) ==
  LET t == LStrip(s, WS) IN
  IF t = <<>> THEN <<>>
  ELSE LET n == IF \E i \in 1..Len(t) : t[i] \in WS
                THEN (CHOOSE i \in 1..Len(t) :
                        t[i] \in WS /\ \A j \in 1..(i - 1) : t[j] \notin WS) - 1
                ELSE Len(t)
       IN <<SubSeq(t, 1, n)>> \o SplitWS(SubSeq(t, n + 1, Len(t)))

RECURSIVE JoinSp(_)
\* ' '.join(words)
JoinSp(ws) ==
  IF ws = <<>> THEN <<>>
  ELSE IF Len(ws) = 1 THEN ws[1]
  ELSE ws[1] \o <<" ">> \o JoinSp(Tail(ws))

\* the characters of s that satisfy keep, in order
RECURSIVE FilterChars(_, _)
FilterChars(s, keep) ==
  IF s = <<>> THEN <<>>
  ELSE (IF Head(s) \in keep THEN <<Head(s)>> ELSE <<>>) \o FilterChars(Tail(s), keep)

\* ------------------------------------------------- LLMModule (llm_module.py)
\* One outcome of a call to the model service (ollama.chat):
\*   kind "ok"     the reply carries message.content = text
\*   kind "nonstr" the reply carries message.content = None
\*   kind "shape"  the reply lacks message/content
\*   kind "err"    the call raises an exception whose str() is text
Outcome(k, t) == [kind |-> k, text |-> t]

UnexpectedFormatMsg == <<"I"," ","r","e","c","e","i","v","e","d"," ","a","n"," ","u","n","e","x","p","e","c","t","e","d"," ","r","e","s","p","o","n","s","e"," ","f","o","r","m","a","t"," ","f","r","o","m"," ","t","h","e"," ","m","o","d","e","l",".">>

ErrorApologyHead == <<"I"," ","a","p","o","l","o","g","i","z","e",","," ","b","u","t"," ","I"," ","e","n","c","o","u","n","t","e","r","e","d"," ","a","n"," ","e","r","r","o","r",":"," ","E","r","r","o","r"," ","g","e","n","e","r","a","t","i","n","g"," ","r","e","s","p","o","n","s","e",":"," ">>

ErrorApologyTail == <<"."," ","P","l","e","a","s","e"," ","m","a","k","e"," ","s","u","r","e"," ","O","l","l","a","m","a"," ","i","s"," ","r","u","n","n","i","n","g"," ","a","n","d"," ","t","h","e"," ","m","o","d","e","l"," ","i","s"," ","a","v","a","i","l","a","b","l","e",".">>

MemoryApologyHead == <<"I"," ","a","p","o","l","o","g","i","z","e",","," ","b","u","t"," ","I","'","m"," ","h","a","v","i","n","g"," ","m","e","m","o","r","y"," ","i","s","s","u","e","s","."," ","P","l","e","a","s","e"," ","r","u","n"," ","'","o","l","l","a","m","a"," ","p","u","l","l"," ","t","i","n","y","l","l","a","m","a","'"," ","a","n","d"," ","r","e","s","t","a","r","t","."," ","E","r","r","o","r",":"," ">>

\* what generate returns for a reply that arrived (lines 119-122)
ReplyValue(o) ==
  IF o.kind = "ok" THEN [isNone |-> FALSE, val |-> o.text]
  ELSE IF o.kind = "nonstr" THEN [isNone |-> TRUE, val |-> <<>>]
  ELSE [isNone |-> FALSE, val |-> UnexpectedFormatMsg]

\* the test of line 128 on the exception text
IsMemoryError(msg) ==
  \/ Contains(Lower(msg), <<"m","e","m","o","r","y">>)
  \/ Contains(Lower(msg), <<"g","p","u">>)
  \/ Contains(msg, <<"5","0","0">>)

\* the i-th outcome of the script; a script that is too short repeats its last
Nth(script, i) == IF i <= Len(script) THEN script[i] ELSE script[Len(script)]

\* LLMModule.generate: script is the (non-empty) sequence of outcomes the
\* service gives to the successive ollama.chat calls of this generate call,
\* tiny tells whether ollama.list() reports a tinyllama model.  The result
\* has the returned value, the number of chat calls made and the number of
\* backoff waits (the code sleeps nowhere between its attempts).
Generate(script, tiny) ==
  LET o1 == Nth(script, 1)
      o2 == Nth(script, 2)
      o3 == Nth(script, 3)
      ret(v, n) == [isNone |-> v.isNone, val |-> v.val, calls |-> n, waits |-> 0]
      str(s, n) == [isNone |-> FALSE, val |-> s, calls |-> n, waits |-> 0]
  IN IF o1.kind # "err" THEN ret(ReplyValue(o1), 1)
     ELSE IF IsMemoryError(o1.text)
     THEN IF o2.kind # "err" THEN ret(ReplyValue(o2), 2)
          ELSE IF tiny /\ o3.kind # "err" THEN ret(ReplyValue(o3), 3)
          ELSE str(MemoryApologyHead \o o1.text, IF tiny THEN 3 ELSE 2)
     ELSE str(ErrorApologyHead \o o1.text \o ErrorApologyTail, 1)

\* ------------------------------------------ IntentAnalyzer (intent_analyzer.py)
\* the alternatives of the label regex of line 119, in the order of the regex
LabelAlternatives == <<
  <<"i","n","t","e","n","t">>,
  <<"i","n","t","e","n","t",":">>,
  <<"t","h","e"," ","i","n","t","e","n","t"," ","i","s">>,
  <<"u","s","e","r"," ","i","n","t","e","n","t">>,
  <<"i","n","t","e","n","t"," ","i","s">> >>

\* re.sub(r'^(intent|intent:|the intent is|user intent|intent is)[:\s]*', '')
\* with IGNORECASE: the first alternative that is a prefix is taken (the
\* rest of the pattern always matches), then the run of ':' and whitespace
StripLabel(s) ==
  IF \E i \in 1..Len(LabelAlternatives) : StartsWithCI(s, LabelAlternatives[i])
  THEN LET i == CHOOSE k \in 1..Len(LabelAlternatives) :
                  /\ StartsWithCI(s, LabelAlternatives[k])
                  /\ \A j \in 1..(k - 1) : ~StartsWithCI(s, LabelAlternatives[j])
       IN LStrip(SubSeq(s, Len(LabelAlternatives[i]) + 1, Len(s)), WS \cup {":"})
  ELSE s

\* re.sub(r'[.,;:!?]+$', ''): '$' matches at the end and before a final newline
StripTrailingPunct(s) ==
  IF s # <<>> /\ s[Len(s)] = "\n"
  THEN RStrip(SubSeq(s, 1, Len(s) - 1), PunctChars) \o <<"\n">>
  ELSE RStrip(s, PunctChars)

\* re.sub(r'[^\w-]', '', word).lower()
CleanWord(w) ==
  Lower(FilterChars(w, {c \in Range(w) : IsWordChar(c) \/ c = "-"}))

RECURSIVE CleanWords(_)
\* the loop of lines 129-134: cleaned words, empty ones dropped
CleanWords(ws) ==
  IF ws = <<>> THEN <<>>
  ELSE (IF CleanWord(Head(ws)) # <<>> THEN <<CleanWord(Head(ws))>> ELSE <<>>)
       \o CleanWords(Tail(ws))

First3(ws) == IF Len(ws) > 3 THEN SubSeq(ws, 1, 3) ELSE ws

UnknownIntent == <<"u","n","k","n","o","w","n">>

\* IntentAnalyzer._parse_response: the 'intent' of the parsed result; r is
\* the value generate returned (None or a text)
ParseResponse(r) ==
  IF r.isNone \/ r.val = <<>> THEN <<>>
  ELSE LET a == Strip(StripLabel(Strip(r.val)))
           b == StripTrailingPunct(StripSet(a, QuoteChars))
           words == First3(CleanWords(SplitWS(b)))
       IN IF words # <<>> THEN JoinSp(words) ELSE UnknownIntent

\* IntentAnalyzer.analyze: the intent, the chat calls made and the waits.
\* generate catches every exception of the service itself, so the except
\* branch of analyze (intent 'unknown') is not reached through it.
Analyze(text, script, tiny) ==
  IF IsBlank(text) THEN [intent |-> <<>>, calls |-> 0, waits |-> 0]
  ELSE LET g == Generate(script, tiny)
       IN [intent |-> ParseResponse(g), calls |-> g.calls, waits |-> g.waits]

\* ------------------------- TranscribeProcessor (process_transcribe_to_excel.py)
\* str(e) of the AttributeError raised by None.strip()
NoneStripMsg == <<"'","N","o","n","e","T","y","p","e","'"," ","o","b","j","e","c","t"," ","h","a","s"," ","n","o"," ","a","t","t","r","i","b","u","t","e"," ","'","s","t","r","i","p","'">>

\* the intent clean-up of process_text, lines 218-225
CapIntent(intent) ==
  IF intent = <<>> THEN intent
  ELSE Lower(Strip(IF Len(SplitWS(intent)) > 3
                   THEN JoinSp(SubSeq(SplitWS(intent), 1, 3))
                   ELSE intent))

\* a process_text that sends a blank text to the service like any other
ProcessTextNoBlankCheck(text, audio, sv, iv) ==
  LET g == Generate(sv.script, sv.tiny)
      a == [intent |-> ParseResponse(Generate(iv.script, iv.tiny)),
            calls |-> Generate(iv.script, iv.tiny).calls]
  IN IF g.isNone
     THEN [kind |-> "raised", row |-> <<>>, err |-> NoneStripMsg, calls |-> g.calls]
     ELSE [kind |-> "result",
           row |-> <<audio, text, StripSet(Strip(g.val), QuoteChars), CapIntent(a.intent)>>,
           err |-> <<>>,
           calls |-> g.calls + a.calls]

\* TranscribeProcessor.process_text; sv and iv are the behaviour of the
\* service ([script, tiny]) during the summary and the intent request.
\* kind "none": returns None; "raised": raises err; "result": returns row
ProcessText(text, audio, sv, iv) ==
  IF IsBlank(text)
  THEN [kind |-> "none", row |-> <<>>, err |-> <<>>, calls |-> 0]
  ELSE LET g == Generate(sv.script, sv.tiny)
           a == Analyze(text, iv.script, iv.tiny)
       IN IF g.isNone
          THEN [kind |-> "raised", row |-> <<>>, err |-> NoneStripMsg, calls |-> g.calls]
          ELSE [kind |-> "result",
                row |-> <<audio, text, StripSet(Strip(g.val), QuoteChars), CapIntent(a.intent)>>,
                err |-> <<>>,
                calls |-> g.calls + a.calls]

\* ---------------------------------------------------------- the output store
\* The output file: st is "absent", "corrupt" (load_workbook raises) or
\* "ok"; rows are the sheet's rows, each a 4-tuple of cell texts (an empty
\* text is an empty cell).
HeaderRow == << <<"A","u","d","i","o"," ","N","a","m","e">>,
                <<"T","r","a","n","s","c","r","i","b","e">>,
                <<"S","u","m","m","a","r","y">>,
                <<"I","n","t","e","n","t">> >>

BlankRow == << <<>>, <<>>, <<>>, <<>> >>

AbsentStore == [st |-> "absent", rows |-> <<>>]

CorruptStore == [st |-> "corrupt", rows |-> <<>>]

OkStore(rows) == [st |-> "ok", rows |-> rows]

\* ws.max_row (openpyxl reports 1 for a sheet without cells)
MaxRow(rows) == IF Len(rows) = 0 THEN 1 ELSE Len(rows)

\* ws.cell(r, c).value
CellValue(rows, r, c) == IF r <= Len(rows) THEN rows[r][c] ELSE <<>>

\* writing the four cells of row r
WriteRow(rows, r, row) ==
  [i \in 1..(IF r > Len(rows) THEN r ELSE Len(rows)) |->
     IF i = r THEN row ELSE IF i <= Len(rows) THEN rows[i] ELSE BlankRow]

\* TranscribeProcessor._create_headers
CreateHeaders(rows) == WriteRow(rows, 1, HeaderRow)

\* TranscribeProcessor._create_new_excel; ok: wb.save succeeds
CreateNewExcel(store, ok) ==
  IF ok THEN [store |-> OkStore(CreateHeaders(<<>>)), raised |-> FALSE]
  ELSE [store |-> store, raised |-> TRUE]

\* an initialization that creates the file anew whatever is there
InitExcelFileAlwaysNew(store, ok1, ok2) == CreateNewExcel(store, ok1)

\* TranscribeProcessor._init_excel_file; ok1, ok2: the first and the second
\* wb.save of the call succeed
InitExcelFile(store, ok1, ok2) ==
  IF store.st = "absent" THEN CreateNewExcel(store, ok1)
  ELSE IF store.st = "corrupt" THEN CreateNewExcel(store, ok1)
  ELSE IF CellValue(store.rows, 1, 1) = <<>>
       THEN IF ok1 THEN [store |-> OkStore(CreateHeaders(store.rows)), raised |-> FALSE]
            ELSE CreateNewExcel(store, ok2)
       ELSE [store |-> store, raised |-> FALSE]

\* save_to_excel taking the last used row as the row to write
LoadForSaveLastRow(store) ==
  IF store.st = "ok"
  THEN [raised |-> FALSE, rows |-> store.rows, next_row |-> MaxRow(store.rows)]
  ELSE [raised |-> TRUE, rows |-> <<>>, next_row |-> 0]

\* the first half of save_to_excel: load_workbook and next_row (lines 248-252)
LoadForSave(store) ==
  IF store.st = "ok"
  THEN [raised |-> FALSE, rows |-> store.rows, next_row |-> MaxRow(store.rows) + 1]
  ELSE [raised |-> TRUE, rows |-> <<>>, next_row |-> 0]

\* a save_to_excel that writes the transcript into column 1 and the audio
\* name into column 2
WriteAndSaveSwapped(store, wb, row, ok) ==
  IF ok THEN [store |-> OkStore(WriteRow(wb.rows, wb.next_row,
                                         <<row[2], row[1], row[3], row[4]>>)),
              raised |-> FALSE]
  ELSE [store |-> store, raised |-> TRUE]

\* a save_to_excel that looks up the free row again when it writes
WriteAndSaveReloads(store, wb, row, ok) ==
  IF ok THEN [store |-> OkStore(WriteRow(store.rows, MaxRow(store.rows) + 1, row)),
              raised |-> FALSE]
  ELSE [store |-> store, raised |-> TRUE]

\* the second half of save_to_excel: the four cells and wb.save (lines 255-266)
WriteAndSave(store, wb, row, ok) ==
  IF ok THEN [store |-> OkStore(WriteRow(wb.rows, wb.next_row, row)), raised |-> FALSE]
  ELSE [store |-> store, raised |-> TRUE]

\* TranscribeProcessor.save_to_excel run without interruption
SaveToExcel(store, row, ok) ==
  IF LoadForSave(store).raised THEN [store |-> store, raised |-> TRUE]
  ELSE WriteAndSave(store, LoadForSave(store), row, ok)

\* a locator that returns the last used row instead of the one after it
FindLastProcessedRowLast(store) ==
  IF store.st = "absent" THEN 2
  ELSE IF store.st = "corrupt" THEN 2
  ELSE MaxRow(store.rows)

\* a locator that always answers the first data row
FindLastProcessedRowFirst(store) == 2

\* resume_processing.find_last_processed_row
FindLastProcessedRow(store) ==
  IF store.st = "absent" THEN 2
  ELSE IF store.st = "corrupt" THEN 2
  ELSE MaxRow(store.rows) + 1

\* check_progress: the processed-rows count it reports (lines 31-41)
ProcessedRows(store) ==
  IF store.st = "absent" THEN 0 ELSE MaxRow(store.rows) - 1

\* the data rows of the store (everything below row 1)
DataRows(store) == IF Len(store.rows) <= 1 THEN <<>> ELSE Tail(store.rows)

\* ------------------------------------------------------------------- state
VARIABLES
  env,          \* [api_key, source_exists, llm_takes_key]: SARVAM_API_KEY is
                \*   set; the source file is there; LLMModule's constructor
                \*   accepts the api_key argument its callers pass
  svc,          \* how the model service behaves: [summary, intent] behaviours
  source,       \* data rows of the source sheet (sheet row i + 1), [audio, text]
  store,        \* the output file IntentOfthetranscribetext.xlsx
  kind,         \* the script of the current / last run
  pc,           \* position of the script's main thread
  start_row,    \* process_excel_simple: start_row
  end_row,      \* process_excel_simple: end_row
  limit,        \* process_excel_simple: limit (0: not called yet)
  row_idx,      \* process_excel_simple: loop variable
  rows_data,    \* bulk runners: the collected row indexes
  futures,      \* bulk runners: future_to_row, row index -> [st, res]
  batch_num,    \* optimized runner: offset of the current batch in rows_data
  batch_size,   \* optimized runner: batch_size
  max_workers,  \* pool size of the current executor
  cur,          \* bulk runners: the row whose future the main thread handles
  wb,           \* the workbook save_to_excel has loaded and not yet saved
  processed,    \* counter
  failed,       \* counter
  skipped,      \* counter
  pauses,       \* optimized runner: pauses taken between batches
  nruns,        \* history: the number of scripts started so far (up to MaxRuns)
  orderly,      \* history: so far only process_simple from row 2 on a store
                \*          without data rows, then resume_processing
  tally,        \* history: row index -> increments of each counter for the
                \*          row, and how its processing came out
  store_fault,  \* history: a store read or write raised during this run
  base_len,     \* history: rows of the store right after the run's initialization
  inits,        \* history: the store initializations that returned so far
  llm,          \* a stand-alone IntentAnalyzer.analyze call
  report,       \* what check_progress last printed
  agent,        \* the interactive AIAgent and its STTModule
  pool_llm,     \* an LLMModule shared by rows, followed generate call by call
  writers,      \* two processes calling save_to_excel on the one store
  lang          \* a stand-alone _detect_language_from_text call

runnerVars == <<kind, pc, start_row, end_row, limit, row_idx, processed, failed, skipped>>

poolVars == <<rows_data, futures, batch_num, batch_size, max_workers, cur, wb, pauses>>

histVars == <<nruns, orderly, tally, store_fault, base_len, inits>>

vars == <<env, svc, source, agent, pool_llm, writers, lang, store, runnerVars, poolVars, histVars, llm, report>>

\* ---------------------------------------------------------------- inputs
\* transcript cells of the source: an empty cell or a text
SourceTexts == { <<>>, <<" ","h","i">> }

RowDigits == <<"1","2","3","4","5","6","7","8","9">>

\* the audio name of source row r
AudioName(r) == <<"c", RowDigits[r]>>

\* the sources with n data rows
SourcesOfLen(n) ==
  { [i \in 1..n |-> [audio |-> AudioName(i + 1), text |-> t[i]]] : t \in [1..n -> SourceTexts] }

Sources == UNION { SourcesOfLen(n) : n \in 0..MaxRows }

\* ws.max_row of the source sheet (header row included)
total_rows == Len(source) + 1

SourceRows == 2..total_rows

RateLimitMsg == <<"4","2","9">>

SummaryReply == <<"\"","n","o"," ","p","w","r",".","\"">>

IntentReply == <<"I","n","t","e","n","t",":"," ","p","w","r"," ","c","u","t",".">>

Behaviour(script, tiny) == [script |-> script, tiny |-> tiny]

\* how the service behaves during a summary request of a runner
SummaryBehaviours ==
  { Behaviour(<<Outcome("ok", SummaryReply)>>, FALSE),
    Behaviour(<<Outcome("nonstr", <<>>)>>, FALSE),
    Behaviour(<<Outcome("err", RateLimitMsg)>>, FALSE) }

\* how the service behaves during an intent request of a runner
IntentBehaviours ==
  { Behaviour(<<Outcome("ok", IntentReply)>>, FALSE),
    Behaviour(<<Outcome("ok", <<>>)>>, FALSE),
    Behaviour(<<Outcome("err", RateLimitMsg)>>, FALSE) }

\* a service that answers every intent request with an empty text
EmptyIntentService ==
  [summary |-> { Behaviour(<<Outcome("ok", SummaryReply)>>, FALSE) },
   intent |-> { Behaviour(<<Outcome("ok", <<>>)>>, FALSE) }]

\* a service whose every call raises
FailingService ==
  [summary |-> { Behaviour(<<Outcome("err", RateLimitMsg)>>, FALSE) },
   intent |-> { Behaviour(<<Outcome("err", RateLimitMsg)>>, FALSE) }]

\* a service that answers the summary requests and raises on intent requests
IntentFailingService ==
  [summary |-> { Behaviour(<<Outcome("ok", SummaryReply)>>, FALSE) },
   intent |-> { Behaviour(<<Outcome("err", RateLimitMsg)>>, FALSE) }]

FaultyServices == { EmptyIntentService, FailingService, IntentFailingService }

\* the behaviours the service shows during one execution of the scripts:
\* it answers, or it sometimes answers a summary request without a text
FlakyService ==
  [summary |-> { Behaviour(<<Outcome("ok", SummaryReply)>>, FALSE),
                 Behaviour(<<Outcome("nonstr", <<>>)>>, FALSE) },
   intent |-> { Behaviour(<<Outcome("ok", IntentReply)>>, FALSE) }]

Services == { FlakyService }

\* the transcripts the runners hand to process_text
StrippedTexts == { Strip(t) : t \in SourceTexts }

\* process_text applied to every row a runner can meet
ProcessTable ==
  [t \in StrippedTexts, a \in {AudioName(r) : r \in 2..(MaxRows + 1)},
   sv \in SummaryBehaviours, iv \in IntentBehaviours |-> ProcessText(t, a, sv, iv)]

\* a data row written by an earlier run on another source
OldRow == << <<"c","0">>, <<"o","l","d">>, <<"s">>, <<"i">> >>

\* a store that holds the rows of an earlier run
UsedStore == [st |-> "ok", rows |-> <<HeaderRow, OldRow>>]

\* the output file before the first script runs: not there, unreadable, a
\* sheet without cells, header only, or data under an empty first row
InitialStores ==
  { AbsentStore, CorruptStore, OkStore(<<>>), OkStore(<<HeaderRow>>),
    OkStore(<<BlankRow, OldRow>>) }


NoWb == [raised |-> FALSE, rows |-> <<>>, next_row |-> 0]

NoLlm == [pc |-> "off", text |-> <<>>, script |-> <<>>, tiny |-> FALSE,
          intent |-> <<>>, calls |-> 0, waits |-> 0,
          sscript |-> <<>>, out |-> "unset"]

NoReport == [st |-> "none", total |-> 0, processed |-> 0, remaining |-> 0]

ZeroTally == [r \in SourceRows |-> [p |-> 0, f |-> 0, s |-> 0, out |-> "unseen"]]

\* counter c is incremented for row r, whose processing came out as o:
\* "empty" (no transcript), "none", "raised" or "result" (of process_text)
Bump(t, r, c, o) ==
  [t EXCEPT ![r] = [p |-> @.p + (IF c = "p" THEN 1 ELSE 0),
                    f |-> @.f + (IF c = "f" THEN 1 ELSE 0),
                    s |-> @.s + (IF c = "s" THEN 1 ELSE 0),
                    out |-> o]]

NoFutures == [r \in {} |-> 0]

Terminal == {"idle", "done", "crashed", "no_key", "no_source", "all_done", "cancelled"}

Min(a, b) == IF a < b THEN a ELSE b

\* TranscribeProcessor.__init__ (line 46) and IntentAnalyzer.__init__ (line
\* 23) call LLMModule(model_name=..., api_key=...).  LLMModule.__init__ of
\* llm_module.py (line 15) has no api_key parameter: with that class the
\* call raises TypeError and the script ends there, before the store is
\* touched (llm_takes_key = FALSE).  The loops of the runners are reached
\* only with an LLMModule whose constructor takes the key, the interface
\* the callers are written against (llm_takes_key = TRUE).
LLMConstructed == env.llm_takes_key

\* the state before any script has run
InitCommon ==
  /\ env \in [api_key : BOOLEAN, source_exists : BOOLEAN, llm_takes_key : BOOLEAN]
  /\ source \in Sources
  /\ (~env.source_exists => source = <<>>)
  /\ store \in InitialStores \cup {UsedStore}
  /\ kind = "none" /\ pc = "idle"
  /\ start_row = 2 /\ end_row = 2 /\ row_idx = 2 /\ limit = 0
  /\ processed = 0 /\ failed = 0 /\ skipped = 0
  /\ rows_data = <<>> /\ futures = NoFutures
  /\ batch_num = 0 /\ batch_size = 0 /\ max_workers = 0
  /\ cur = 0 /\ wb = NoWb /\ pauses = 0
  /\ nruns = 0 /\ orderly = (Len(store.rows) <= 1)
  /\ tally = ZeroTally /\ store_fault = FALSE /\ base_len = 0 /\ inits = 0
  /\ report = NoReport

NoWriters == [proc |-> <<>>, saves |-> 0, stale |-> 0, base |-> 0]

NoAgent == [pc |-> "off"]

NoPoolLlm == [pc |-> "off"]

\* no interactive agent runs, and no LLMModule is followed call by call
Quiet == agent = NoAgent /\ pool_llm = NoPoolLlm

NoLang == [pc |-> "off", text |-> <<>>, default |-> "hindi", result |-> "none"]

\* only the scripts run: no stand-alone call is made, no second process writes
Alone == llm = NoLlm /\ writers = NoWriters /\ lang = NoLang /\ Quiet

Init == InitCommon /\ svc \in Services /\ Alone

\* ------------------------------------------- process_simple.py (sequential)
\* a script ends before its loop: only the position and the history change
EndEarly(k, where) ==
  /\ kind' = k /\ pc' = where
  /\ nruns' = Min(nruns + 1, MaxRuns)
  /\ orderly' = (orderly /\ k \in {"simple", "resume"})
  /\ base_len' = 0 /\ tally' = ZeroTally /\ store_fault' = FALSE
  /\ UNCHANGED inits
  /\ processed' = 0 /\ failed' = 0 /\ skipped' = 0
  /\ start_row' = 2 /\ end_row' = 2 /\ row_idx' = 2 /\ limit' = 0
  /\ report' = NoReport
  /\ UNCHANGED <<env, svc, source, agent, pool_llm, writers, lang, store, poolVars, llm>>

\* an end_row that takes in one row more
EndRowInclusive(srow, lim) == Min(srow + lim + 1, total_rows + 1)

\* end_row = min(start_row + limit, total_rows + 1) (line 70)
EndRow(srow, lim) == Min(srow + lim, total_rows + 1)

\* process_excel_simple(source_file, limit, srow) up to its loop: the
\* credential and source checks, TranscribeProcessor() with the store's
\* initialization, total_rows and end_row
ProcessExcelSimple(k, lim, srow) ==
  IF ~env.api_key THEN EndEarly(k, "no_key")
  ELSE IF ~env.source_exists THEN EndEarly(k, "no_source")
  ELSE IF ~LLMConstructed THEN EndEarly(k, "crashed")
  ELSE \E ok1, ok2 \in BOOLEAN :
         LET i == InitExcelFile(store, ok1, ok2) IN
         /\ kind' = k
         /\ nruns' = Min(nruns + 1, MaxRuns)
         /\ orderly' = (/\ orderly
                        /\ k = "simple" => (srow = 2 /\ Len(i.store.rows) <= 1))
         /\ store' = i.store
         /\ base_len' = (IF i.raised THEN 0 ELSE Len(i.store.rows))
         /\ inits' = (IF i.raised THEN inits ELSE Min(inits + 1, MaxRuns))
         /\ tally' = ZeroTally /\ store_fault' = i.raised
         /\ pc' = IF i.raised THEN "crashed" ELSE "loop"
         /\ processed' = 0 /\ failed' = 0 /\ skipped' = 0
         /\ start_row' = srow /\ row_idx' = srow
         /\ limit' = lim
         /\ end_row' = EndRow(srow, lim)
         /\ report' = NoReport
         /\ UNCHANGED <<env, svc, source, agent, pool_llm, writers, lang, poolVars, llm>>

\* python process_simple.py source limit start_row
StartSimple ==
  /\ pc \in Terminal /\ nruns < MaxRuns /\ kind \notin {"fast", "optimized"}
  /\ \E lim \in 1..MaxLimit, srow \in 2..(MaxRows + 2) :
       ProcessExcelSimple("simple", lim, srow)

\* python resume_processing.py source limit: main(), with the user's answer
StartResume ==
  /\ pc \in Terminal /\ nruns < MaxRuns /\ kind \notin {"fast", "optimized"}
  /\ \E lim \in 1..MaxLimit, answer \in {"y", "n"} :
       LET srow == FindLastProcessedRow(store) IN
       IF ~env.source_exists THEN EndEarly("resume", "no_source")
       ELSE IF srow > total_rows THEN EndEarly("resume", "all_done")
       ELSE IF answer # "y" THEN EndEarly("resume", "cancelled")
       ELSE ProcessExcelSimple("resume", Min(lim, total_rows - srow + 1), srow)

\* the loop without its try/except: an exception of process_text or of
\* save_to_excel ends the script
SeqRowRaiseEscapes ==
  /\ pc = "loop" /\ row_idx < end_row
  /\ LET rec == source[row_idx - 1] IN
     IF IsBlank(rec.text)
     THEN /\ skipped' = skipped + 1
          /\ tally' = Bump(tally, row_idx, "s", "empty")
          /\ pc' = pc
          /\ UNCHANGED <<store, processed, failed, store_fault>>
     ELSE \E sv \in svc.summary, iv \in svc.intent, ok \in BOOLEAN :
            LET r == ProcessTable[Strip(rec.text), rec.audio, sv, iv]
                w == SaveToExcel(store, r.row, ok)
            IN IF r.kind = "result" /\ ~w.raised
               THEN /\ store' = w.store
                    /\ processed' = processed + 1
                    /\ tally' = Bump(tally, row_idx, "p", "result")
                    /\ pc' = pc
                    /\ UNCHANGED <<failed, skipped, store_fault>>
               ELSE /\ pc' = "crashed"
                    /\ store_fault' = (store_fault \/ r.kind = "result")
                    /\ UNCHANGED <<store, processed, failed, skipped, tally>>
  /\ row_idx' = row_idx + 1
  /\ UNCHANGED <<env, svc, source, agent, pool_llm, writers, lang, kind, start_row, end_row, limit, poolVars,
                 nruns, orderly, base_len, inits, llm, report>>

\* one iteration of the loop of process_excel_simple (lines 74-132)
SeqRow ==
  /\ pc = "loop" /\ row_idx < end_row
  /\ LET rec == source[row_idx - 1] IN
     IF IsBlank(rec.text)
     THEN /\ skipped' = skipped + 1
          /\ tally' = Bump(tally, row_idx, "s", "empty")
          /\ UNCHANGED <<store, processed, failed, store_fault>>
     ELSE \E sv \in svc.summary, iv \in svc.intent, ok \in BOOLEAN :
            LET r == ProcessTable[Strip(rec.text), rec.audio, sv, iv]
                w == SaveToExcel(store, r.row, ok)
            IN IF r.kind = "result" /\ ~w.raised
               THEN /\ store' = w.store
                    /\ processed' = processed + 1
                    /\ tally' = Bump(tally, row_idx, "p", "result")
                    /\ UNCHANGED <<failed, skipped, store_fault>>
               ELSE /\ failed' = failed + 1
                    /\ tally' = Bump(tally, row_idx, "f", r.kind)
                    /\ store_fault' = (store_fault \/ r.kind = "result")
                    /\ UNCHANGED <<store, processed, skipped>>
  /\ row_idx' = row_idx + 1
  /\ UNCHANGED <<env, svc, source, agent, pool_llm, writers, lang, kind, pc, start_row, end_row, limit, poolVars,
                 nruns, orderly, base_len, inits, llm, report>>

\* the end of process_excel_simple: wb.close() and the final summary
SeqFinish ==
  /\ pc = "loop" /\ row_idx >= end_row
  /\ pc' = "done"
  /\ UNCHANGED <<env, svc, source, agent, pool_llm, writers, lang, store, kind, start_row, end_row, limit, row_idx,
                 processed, failed, skipped, poolVars, histVars, llm, report>>

\* ---------------------------------------------------------- check_progress.py
\* check_progress(): the counts it prints; an unreadable store makes it crash
CheckProgress ==
  /\ pc \in Terminal
  /\ report' =
       IF ~env.source_exists THEN [NoReport EXCEPT !.st = "no_source"]
       ELSE IF store.st = "corrupt"
       THEN [NoReport EXCEPT !.st = "crashed", !.total = total_rows - 1]
       ELSE [st |-> "ok", total |-> total_rows - 1,
             processed |-> ProcessedRows(store),
             remaining |-> (total_rows - 1) - ProcessedRows(store)]
  /\ report' # report
  /\ UNCHANGED <<env, svc, source, agent, pool_llm, writers, lang, store, runnerVars, poolVars, histVars, llm>>

\* ------------------ process_bulk_fast.py / process_bulk_optimized.py (pools)
EmptyTranscriptionMsg == <<"E","m","p","t","y"," ","t","r","a","n","s","c","r","i","p","t","i","o","n">>

ProcessingFailedMsg == <<"P","r","o","c","e","s","s","i","n","g"," ","f","a","i","l","e","d">>

EmptyMsg == <<"E","m","p","t","y">>

FailedMsg == <<"F","a","i","l","e","d">>

\* the tuple (row_idx, result, error) a worker returns
WorkerResult(row, error) == [has |-> row # <<>>, row |-> row, error |-> error]

NoResult == WorkerResult(<<>>, <<>>)

\* FastBulkProcessor.process_single_row and
\* OptimizedBulkProcessor.process_single_row (k tells which)
ProcessSingleRow(k, rec, sv, iv) ==
  IF IsBlank(rec.text)
  THEN WorkerResult(<<>>, IF k = "fast" THEN EmptyTranscriptionMsg ELSE EmptyMsg)
  ELSE LET r == ProcessTable[Strip(rec.text), rec.audio, sv, iv] IN
       IF r.kind = "result" THEN WorkerResult(r.row, <<>>)
       ELSE IF r.kind = "none"
       THEN WorkerResult(<<>>, IF k = "fast" THEN ProcessingFailedMsg ELSE FailedMsg)
       ELSE WorkerResult(<<>>, r.err)

\* the rows 2 .. min(2 + limit, total_rows + 1) - 1 collected into rows_data
CollectRows(lim) == [i \in 1..(Min(2 + lim, total_rows + 1) - 2) |-> i + 1]

\* the rows of the batch the executor is working on
CurrentBatch ==
  IF kind = "fast" THEN Range(rows_data)
  ELSE {rows_data[i] : i \in (batch_num + 1)..Min(batch_num + batch_size, Len(rows_data))}

\* a submission that hands every collected row to the executor at once
SubmittedAll(f, rd, b, size) ==
  [r \in DOMAIN f |->
     IF f[r].st = "unsubmitted" THEN [st |-> "pending", res |-> NoResult] ELSE f[r]]

\* the futures after executor.submit of every row of the batch at offset b
Submitted(f, rd, b, size) ==
  [r \in DOMAIN f |->
     IF \E i \in (b + 1)..Min(b + size, Len(rd)) : rd[i] = r
     THEN [st |-> "pending", res |-> NoResult] ELSE f[r]]

Running == {r \in DOMAIN futures : futures[r].st = "running"}

\* a bulk script from its start to the submission of its first batch.
\* process_bulk_fast builds the processor (and with it the store) before it
\* looks for the source file, process_bulk_optimized after.
StartPool(k, lim, size) ==
  /\ pc = "idle"
  /\ IF ~env.api_key THEN EndEarly(k, "no_key")
     ELSE IF k = "optimized" /\ ~env.source_exists THEN EndEarly(k, "no_source")
     ELSE IF ~LLMConstructed THEN EndEarly(k, "crashed")
     ELSE \E ok1, ok2 \in BOOLEAN :
       LET i == InitExcelFile(store, ok1, ok2)
           go == ~i.raised /\ env.source_exists
           rd == IF go THEN CollectRows(lim) ELSE <<>>
           un == [r \in Range(rd) |-> [st |-> "unsubmitted", res |-> NoResult]]
       IN /\ kind' = k
          /\ nruns' = Min(nruns + 1, MaxRuns)
          /\ orderly' = FALSE
          /\ store' = i.store
          /\ base_len' = (IF i.raised THEN 0 ELSE Len(i.store.rows))
          /\ inits' = (IF i.raised THEN inits ELSE Min(inits + 1, MaxRuns))
          /\ tally' = ZeroTally /\ store_fault' = i.raised
          /\ pc' = IF i.raised THEN "crashed"
                   ELSE IF ~env.source_exists THEN "no_source" ELSE "wait"
          /\ processed' = 0 /\ failed' = 0 /\ skipped' = 0
          /\ rows_data' = rd
          /\ batch_num' = 0
          /\ batch_size' = IF k = "fast" THEN Len(rd) ELSE size
          /\ max_workers' = size
          /\ futures' = Submitted(un, rd, 0, IF k = "fast" THEN Len(rd) ELSE size)
          /\ cur' = 0 /\ wb' = NoWb /\ pauses' = 0
          /\ report' = NoReport
          /\ UNCHANGED <<env, svc, source, agent, pool_llm, writers, lang, start_row, end_row, limit, row_idx, llm>>

\* python process_bulk_fast.py
StartFast == \E lim \in 1..MaxLimit, w \in 1..MaxWorkers : StartPool("fast", lim, w)

\* python process_bulk_optimized.py source limit batch_size
StartOptimized ==
  \E lim \in 1..MaxLimit, b \in 1..MaxWorkers : StartPool("optimized", lim, b)

\* a pool thread takes the oldest submitted task
WorkerStart(r) ==
  /\ pc \in {"wait", "save"}
  /\ r \in DOMAIN futures /\ futures[r].st = "pending"
  /\ \A q \in DOMAIN futures : futures[q].st = "pending" => r <= q
  /\ Cardinality(Running) < max_workers
  /\ futures' = [futures EXCEPT ![r].st = "running"]
  /\ UNCHANGED <<env, svc, source, agent, pool_llm, writers, lang, store, runnerVars, rows_data, batch_num, batch_size,
                 max_workers, cur, wb, pauses, histVars, llm, report>>

\* a pool thread that appends its own result before it returns
WorkerFinishAppends(r) ==
  /\ pc \in {"wait", "save"}
  /\ r \in DOMAIN futures /\ futures[r].st = "running"
  /\ \E sv \in svc.summary, iv \in svc.intent :
       LET res == ProcessSingleRow(kind, source[r - 1], sv, iv) IN
       /\ futures' = [futures EXCEPT ![r] = [st |-> "done", res |-> res]]
       /\ store' = IF res.has THEN SaveToExcel(store, res.row, TRUE).store ELSE store
  /\ UNCHANGED <<env, svc, source, agent, pool_llm, writers, lang, runnerVars, rows_data, batch_num, batch_size,
                 max_workers, cur, wb, pauses, histVars, llm, report>>

\* a pool thread returns from process_single_row
WorkerFinish(r) ==
  /\ pc \in {"wait", "save"}
  /\ r \in DOMAIN futures /\ futures[r].st = "running"
  /\ \E sv \in svc.summary, iv \in svc.intent :
       futures' = [futures EXCEPT ![r] =
                     [st |-> "done", res |-> ProcessSingleRow(kind, source[r - 1], sv, iv)]]
  /\ UNCHANGED <<env, svc, source, agent, pool_llm, writers, lang, store, runnerVars, rows_data, batch_num, batch_size,
                 max_workers, cur, wb, pauses, histVars, llm, report>>

\* how the processing of a row came out, told from the worker's error text
ErrorKind(error) ==
  IF error \in {EmptyTranscriptionMsg, EmptyMsg} THEN "empty"
  ELSE IF error \in {ProcessingFailedMsg, FailedMsg} THEN "none"
  ELSE "raised"

\* the error branch counting a row without transcript as failed as well
CountErrorEmptyFails(r, error) ==
  /\ failed' = failed + 1
  /\ IF error \in {EmptyTranscriptionMsg, EmptyMsg}
     THEN /\ skipped' = skipped + 1
          /\ tally' = Bump(Bump(tally, r, "f", "empty"), r, "s", "empty")
     ELSE /\ tally' = Bump(tally, r, "f", ErrorKind(error))
          /\ UNCHANGED skipped

\* the counters after the main thread has looked at an error result
\* (process_bulk_fast.py lines 123-128, process_bulk_optimized.py 124-129)
CountError(r, error) ==
  IF kind = "fast"
  THEN IF error # <<>>
       THEN /\ failed' = failed + 1
            /\ IF error # EmptyTranscriptionMsg
               THEN /\ tally' = Bump(tally, r, "f", ErrorKind(error))
                    /\ UNCHANGED skipped
               ELSE /\ skipped' = skipped + 1
                    /\ tally' = Bump(Bump(tally, r, "f", "empty"), r, "s", "empty")
       ELSE UNCHANGED <<failed, skipped, tally>>
  ELSE IF error = EmptyMsg
       THEN /\ skipped' = skipped + 1
            /\ tally' = Bump(tally, r, "s", "empty")
            /\ UNCHANGED failed
       ELSE /\ failed' = failed + 1
            /\ tally' = Bump(tally, r, "f", ErrorKind(error))
            /\ UNCHANGED skipped

\* the main thread gets a completed future from as_completed and handles
\* its result up to load_workbook inside save_to_excel
MainTake(r) ==
  /\ pc = "wait"
  /\ r \in DOMAIN futures /\ futures[r].st = "done"
  /\ futures' = [futures EXCEPT ![r].st = "taken"]
  /\ LET res == futures[r].res
         l == LoadForSave(store)
     IN IF res.has
        THEN IF l.raised
             THEN /\ failed' = failed + 1
                  /\ tally' = Bump(tally, r, "f", "result")
                  /\ store_fault' = TRUE
                  /\ UNCHANGED <<pc, cur, wb, skipped>>
             ELSE /\ pc' = "save" /\ cur' = r /\ wb' = l
                  /\ UNCHANGED <<failed, skipped, tally, store_fault>>
        ELSE /\ CountError(r, res.error)
             /\ UNCHANGED <<pc, cur, wb, store_fault>>
  /\ UNCHANGED <<env, svc, source, agent, pool_llm, writers, lang, store, kind, start_row, end_row, limit, row_idx, processed,
                 rows_data, batch_num, batch_size, max_workers, pauses,
                 nruns, orderly, base_len, inits, llm, report>>

\* the main thread writes the row and saves the workbook
MainSave ==
  /\ pc = "save"
  /\ \E ok \in BOOLEAN :
       LET w == WriteAndSave(store, wb, futures[cur].res.row, ok) IN
       /\ store' = w.store
       /\ IF w.raised
          THEN /\ failed' = failed + 1
               /\ tally' = Bump(tally, cur, "f", "result")
               /\ store_fault' = TRUE
               /\ UNCHANGED processed
          ELSE /\ processed' = processed + 1
               /\ tally' = Bump(tally, cur, "p", "result")
               /\ UNCHANGED <<failed, store_fault>>
  /\ pc' = "wait" /\ cur' = 0 /\ wb' = NoWb
  /\ UNCHANGED <<env, svc, source, agent, pool_llm, writers, lang, kind, start_row, end_row, limit, row_idx, skipped,
                 rows_data, futures, batch_num, batch_size, max_workers, pauses,
                 nruns, orderly, base_len, inits, llm, report>>

\* every future of the batch is handled: the executor shuts down; the
\* optimized runner pauses if a batch is left, otherwise the summary
BatchEnd ==
  /\ pc = "wait"
  /\ \A r \in CurrentBatch : futures[r].st = "taken"
  /\ IF kind = "optimized" /\ batch_num + batch_size < Len(rows_data)
     THEN pc' = "pause" /\ pauses' = pauses + 1
     ELSE pc' = "done" /\ UNCHANGED pauses
  /\ UNCHANGED <<env, svc, source, agent, pool_llm, writers, lang, store, kind, start_row, end_row, limit, row_idx,
                 processed, failed, skipped, rows_data, futures, batch_num,
                 batch_size, max_workers, cur, wb, histVars, llm, report>>

\* the optimized runner ends its pause and submits the next batch
NextBatch ==
  /\ pc = "pause"
  /\ pc' = "wait"
  /\ batch_num' = batch_num + batch_size
  /\ futures' = Submitted(futures, rows_data, batch_num + batch_size, batch_size)
  /\ UNCHANGED <<env, svc, source, agent, pool_llm, writers, lang, store, kind, start_row, end_row, limit, row_idx,
                 processed, failed, skipped, rows_data, batch_size, max_workers,
                 cur, wb, pauses, histVars, llm, report>>

Next ==
  \/ StartSimple
  \/ StartResume
  \/ SeqRow
  \/ SeqFinish
  \/ CheckProgress
  \/ StartFast
  \/ StartOptimized
  \/ \E r \in 2..(MaxRows + 1) : WorkerStart(r)
  \/ \E r \in 2..(MaxRows + 1) : WorkerFinish(r)
  \/ \E r \in 2..(MaxRows + 1) : MainTake(r)
  \/ MainSave
  \/ BatchEnd
  \/ NextBatch

\* ------------------------------------- IntentAnalyzer.analyze on its own
MaxScriptLen == 3

MemoryMsg == <<"5","0","0">>

TimeoutMsg == <<"t","i","m","e","d"," ","o","u","t">>

\* what one call to the service can do
ServiceOutcomes ==
  { Outcome("ok", IntentReply), Outcome("ok", <<>>), Outcome("nonstr", <<>>),
    Outcome("shape", <<>>), Outcome("err", RateLimitMsg), Outcome("err", MemoryMsg),
    Outcome("err", TimeoutMsg) }

\* what the service does on the successive calls of one analyze
ServiceScripts == UNION { [1..n -> ServiceOutcomes] : n \in 1..MaxScriptLen }

AnalyzeTexts == { <<>>, <<"h","i">> }

\* an analyze call about to be made
InitLLM ==
  /\ InitCommon
  /\ env = [api_key |-> TRUE, source_exists |-> FALSE, llm_takes_key |-> TRUE]
  /\ store = AbsentStore
  /\ svc \in Services /\ Quiet /\ writers = NoWriters /\ lang = NoLang
  /\ \E t \in AnalyzeTexts, sc \in ServiceScripts, b \in BOOLEAN :
       llm = [NoLlm EXCEPT !.pc = "ready", !.text = t, !.script = sc, !.tiny = b]

\* IntentAnalyzer.analyze(text) against the scripted service
AnalyzeCall ==
  /\ llm.pc = "ready"
  /\ LET a == Analyze(llm.text, llm.script, llm.tiny) IN
     llm' = [llm EXCEPT !.pc = "done", !.intent = a.intent,
                        !.calls = a.calls, !.waits = a.waits]
  /\ UNCHANGED <<env, svc, source, agent, pool_llm, writers, lang, store, runnerVars, poolVars, histVars, report>>

\* one analyze call, for every text and every behaviour of the service
LLMSpec == InitLLM /\ [][AnalyzeCall]_vars

\* --------------------- one LLMModule shared by the rows of a pool (self.llm)
MaxSharedRows == 3

\* what the tinyllama model answers
TinyReply == <<"p","w","r">>

\* what the service does on the successive ollama.chat calls of one generate
\* call: a request for tinyllama is answered by tinyllama; a request for the
\* configured model is answered ("fits"), is answered on the CPU retry after
\* a memory error ("cpu"), or fails twice with a memory error, after which
\* the third call goes to tinyllama ("heavy")
ChatScript(model_name, load) ==
  IF model_name = "tinyllama" THEN <<Outcome("ok", TinyReply)>>
  ELSE IF load = "fits" THEN <<Outcome("ok", SummaryReply)>>
  ELSE IF load = "cpu" THEN <<Outcome("err", MemoryMsg), Outcome("ok", SummaryReply)>>
  ELSE <<Outcome("err", MemoryMsg), Outcome("err", MemoryMsg), Outcome("ok", TinyReply)>>

\* generate reaches line 169, self.model_name = 'tinyllama': the first call
\* and the CPU retry raised, the first with a memory error, and ollama.list()
\* reports a tinyllama model
SwitchesModel(script, tiny) ==
  /\ Nth(script, 1).kind = "err" /\ IsMemoryError(Nth(script, 1).text)
  /\ Nth(script, 2).kind = "err"
  /\ tiny

\* a processor built with the configured model and the default language,
\* and rows whose summary requests are about to be made by worker threads
InitShared ==
  /\ InitCommon
  /\ env = [api_key |-> TRUE, source_exists |-> FALSE, llm_takes_key |-> TRUE]
  /\ store = AbsentStore
  /\ svc \in Services /\ llm = NoLlm /\ agent = NoAgent
  /\ writers = NoWriters /\ lang = NoLang
  /\ \E b \in BOOLEAN, ld \in [1..MaxSharedRows -> {"fits", "cpu", "heavy"}] :
       pool_llm = [pc |-> "on", model_name |-> "phi3", language |-> "hindi",
                   tiny |-> b, load |-> ld,
                   st |-> [r \in 1..MaxSharedRows |-> "todo"],
                   val |-> [r \in 1..MaxSharedRows |-> <<>>]]

\* self.llm.generate(...) of process_text for row r (line 202), run by a
\* worker thread on the LLMModule all rows share
GenerateShared(r) ==
  /\ pool_llm.pc = "on" /\ pool_llm.st[r] = "todo"
  /\ LET script == ChatScript(pool_llm.model_name, pool_llm.load[r]) IN
     pool_llm' = [pool_llm EXCEPT
                    !.st[r] = "done",
                    !.val[r] = Generate(script, pool_llm.tiny).val,
                    !.model_name = IF SwitchesModel(script, pool_llm.tiny)
                                   THEN "tinyllama" ELSE @]
  /\ UNCHANGED <<env, svc, source, agent, writers, lang, store, runnerVars, poolVars, histVars,
                 llm, report>>

SharedSpec == InitShared /\ [][\E r \in 1..MaxSharedRows : GenerateShared(r)]_vars

\* ------------------------------ TranscribeProcessor.process_single on its own
\* the texts handed over: None or '', blank ones, and a text
SingleTexts == { <<>>, <<" ">>, <<"\t","\n">>, <<" ","h","i">> }

\* an analyze call (pc "ready") or a process_single call (pc "single") about
\* to be made on an initialized store; script is what the service does during
\* the intent request, sscript during the summary request
InitSingle ==
  /\ InitCommon
  /\ env = [api_key |-> TRUE, source_exists |-> FALSE, llm_takes_key |-> TRUE]
  /\ store \in {OkStore(<<HeaderRow>>), UsedStore}
  /\ svc \in Services /\ Quiet /\ writers = NoWriters /\ lang = NoLang
  /\ \E t \in SingleTexts, sv \in SummaryBehaviours, iv \in IntentBehaviours,
        p \in {"ready", "single"} :
       llm = [NoLlm EXCEPT !.pc = p, !.text = t, !.script = iv.script, !.sscript = sv.script]

\* TranscribeProcessor.process_single(text, audio): process_text, and
\* save_to_excel when it returned a result; ok: wb.save succeeds
ProcessSingleCall ==
  /\ llm.pc = "single"
  /\ \E ok \in BOOLEAN :
       LET r == ProcessText(llm.text, AudioName(1), Behaviour(llm.sscript, llm.tiny),
                            Behaviour(llm.script, llm.tiny))
           s == IF r.kind = "result" THEN SaveToExcel(store, r.row, ok)
                ELSE [store |-> store, raised |-> FALSE]
       IN /\ store' = s.store
          /\ llm' = [llm EXCEPT !.pc = "done",
                                !.out = IF s.raised THEN "raised" ELSE r.kind,
                                !.intent = IF r.kind = "result" THEN r.row[4] ELSE <<>>,
                                !.calls = r.calls]
  /\ UNCHANGED <<env, svc, source, agent, pool_llm, writers, lang, runnerVars, poolVars,
                 histVars, report>>

\* one analyze or process_single call, for every text and service behaviour
SingleSpec == InitSingle /\ [][AnalyzeCall \/ ProcessSingleCall]_vars

\* ------------------------ TranscribeProcessor._detect_language_from_text
\* Characters outside ASCII are written by their code point.  Of each block
\* the model has a letter (str.isalnum() is true) and a vowel sign (a
\* combining mark: inside the block, str.isalnum() is false).
TeluguBlock == {"U+0C05", "U+0C3E"}

HindiBlock == {"U+0905", "U+093E"}

UrduBlock == {"U+0627", "U+064E"}

\* c.isalpha() and ord(c) < 128
AsciiLetters == Range(UpperSeq) \cup Range(LowerSeq)

\* c.isalnum()
AlnumChars == AsciiLetters \cup Digits \cup {"U+0C05", "U+0905", "U+0627"}

Languages == {"hindi", "english", "urdu", "telugu"}

\* the keys of the ratios dict in the order they are inserted (lines 97-102)
RatioKeys == <<"telugu", "hindi", "urdu", "english">>

\* sum(1 for c in text if ...)
CountChars(s, cs) == Len(FilterChars(s, cs))

\* the counts of lines 80-83 for the stripped text
ScriptChars(text) ==
  [telugu |-> CountChars(Strip(text), TeluguBlock),
   hindi |-> CountChars(Strip(text), HindiBlock),
   urdu |-> CountChars(Strip(text), UrduBlock),
   english |-> CountChars(Strip(text), AsciiLetters)]

\* total_chars of line 85
TotalChars(text) == CountChars(Strip(text), AlnumChars)

\* max(ratios, key=ratios.get) over keys taken in the given order: the first
\* key whose value no other key exceeds.  All ratios have the denominator
\* total_chars, so they compare as their counts do.
FirstMax(cnt, keys) ==
  keys[CHOOSE k \in 1..Len(keys) :
         /\ \A j \in 1..Len(keys) : cnt[keys[j]] <= cnt[keys[k]]
         /\ \A j \in 1..(k - 1) : cnt[keys[j]] < cnt[keys[k]]]

\* a classifier that accepts a ratio of exactly 0.1
DetectLanguageAtLeast(text, default) ==
  IF IsBlank(text) \/ TotalChars(text) = 0 THEN default
  ELSE LET best == FirstMax(ScriptChars(text), RatioKeys)
       IN IF 10 * ScriptChars(text)[best] >= TotalChars(text) THEN best ELSE default

\* a classifier that takes the last of the keys with the highest ratio
DetectLanguageLastMax(text, default) ==
  IF IsBlank(text) \/ TotalChars(text) = 0 THEN default
  ELSE LET best == FirstMax(ScriptChars(text), <<"english", "urdu", "hindi", "telugu">>)
       IN IF 10 * ScriptChars(text)[best] > TotalChars(text) THEN best ELSE default

\* _detect_language_from_text; default is self.language.  The test
\* "ratio > 0.1" is made on integers: count / total > 0.1 as floats exactly
\* when 10 * count > total, for every text a cell can hold.
DetectLanguageFromText(text, default) ==
  IF IsBlank(text) THEN default
  ELSE IF TotalChars(text) = 0 THEN default
  ELSE LET best == FirstMax(ScriptChars(text), RatioKeys)
       IN IF 10 * ScriptChars(text)[best] > TotalChars(text) THEN best ELSE default

MaxScriptChars == 2

MaxFillChars == 20

\* n times the character c
Rep(c, n) == [i \in 1..n |-> c]

\* the texts given to the classifier: up to MaxScriptChars letters of each
\* script, a vowel sign or none, up to MaxFillChars ASCII digits, and a
\* question mark; the blank text
LangTexts ==
  { Rep("U+0C05", n[1]) \o Rep("U+0905", n[2]) \o Rep("U+0627", n[3]) \o Rep("a", n[4])
      \o Rep("U+093E", m) \o Rep("7", d) \o <<"?">> :
      n \in [1..4 -> 0..MaxScriptChars], m \in 0..1, d \in 0..MaxFillChars }
  \cup { <<" ">> }

\* a classifier call about to be made
InitLang ==
  /\ InitCommon
  /\ env = [api_key |-> TRUE, source_exists |-> FALSE, llm_takes_key |-> TRUE]
  /\ store = AbsentStore
  /\ svc \in Services /\ Quiet /\ writers = NoWriters /\ llm = NoLlm
  /\ \E t \in LangTexts, l \in Languages :
       lang = [pc |-> "ready", text |-> t, default |-> l, result |-> "none"]

\* self._detect_language_from_text(transcribed_text)
DetectCall ==
  /\ lang.pc = "ready"
  /\ lang' = [lang EXCEPT !.pc = "done",
                          !.result = DetectLanguageFromText(lang.text, lang.default)]
  /\ UNCHANGED <<env, svc, source, agent, pool_llm, writers, store, runnerVars, poolVars, histVars, llm, report>>

\* one classifier call, for every text and every configured language
LangSpec == InitLang /\ [][DetectCall]_vars

\* --------------------------------- _parse_response on the replies of a model
MaxReplyLen == 4

\* characters of a reply: letters of both cases, a hyphen, a blank, a
\* punctuation mark and a quote
ReplyChars == {"a", "B", "-", " ", ".", "\""}

BulletReply == <<"-"," ","p","o","w","e","r"," ","c","u","t">>

LongReply == <<"P","o","w","e","r"," ","c","u","t"," ","i","s","s","u","e"," ","n","o","w",".">>

\* the replies of the model: every text of up to MaxReplyLen characters, bare
\* or behind a label, and some longer ones
RawReplies ==
  LET short == UNION { [1..n -> ReplyChars] : n \in 0..MaxReplyLen }
  IN short \cup { <<"I","n","t","e","n","t",":"," ">> \o s : s \in short }
           \cup { IntentReply, BulletReply, LongReply }

\* an analyze call of a text that the service answers with a reply, or with
\* a message without a text
InitParse ==
  /\ InitCommon
  /\ env = [api_key |-> TRUE, source_exists |-> FALSE, llm_takes_key |-> TRUE]
  /\ store = AbsentStore
  /\ svc \in Services /\ Quiet /\ writers = NoWriters /\ lang = NoLang
  /\ \E o \in { Outcome("ok", s) : s \in RawReplies } \cup { Outcome("nonstr", <<>>) } :
       llm = [NoLlm EXCEPT !.pc = "ready", !.text = <<"h","i">>, !.script = <<o>>]

\* the reply that the analyze call got
RawReply == llm.script[1].text

\* one analyze call, for every reply
ParseSpec == InitParse /\ [][AnalyzeCall]_vars

\* ------------------------------ two processes appending to the same store
MaxAppends == 2

Writers == 1..2

\* the k-th row that writer w has left to append
WriterRow(w, k) == << <<"w", RowDigits[w]>>, <<"t", RowDigits[k]>>, <<"s">>, <<"i">> >>

\* two runner processes about to append up to MaxAppends rows each to one
\* initialized output file
InitWriters ==
  /\ InitCommon
  /\ env = [api_key |-> TRUE, source_exists |-> FALSE, llm_takes_key |-> TRUE]
  /\ store \in {OkStore(<<HeaderRow>>), UsedStore}
  /\ svc \in Services /\ Quiet /\ llm = NoLlm /\ lang = NoLang
  /\ \E n \in [Writers -> 1..MaxAppends] :
       writers = [proc |-> [w \in Writers |-> [pc |-> "idle", wb |-> NoWb, left |-> n[w]]],
                  saves |-> 0, stale |-> 0, base |-> Len(DataRows(store))]

\* writer w enters save_to_excel: load_workbook and next_row (lines 248-252)
WriterLoad(w) ==
  /\ writers.proc[w].pc = "idle" /\ writers.proc[w].left > 0
  /\ LET l == LoadForSave(store) IN
     writers' = IF l.raised
                THEN [writers EXCEPT !.proc[w].left = @ - 1]
                ELSE [writers EXCEPT !.proc[w].pc = "loaded", !.proc[w].wb = l]
  /\ UNCHANGED <<env, svc, source, agent, pool_llm, lang, store, runnerVars, poolVars, histVars, llm, report>>

\* writer w writes its four cells and saves its workbook (lines 255-266).
\* saves counts the appends that succeeded, stale those made from a workbook
\* that was loaded before the other writer's last save
WriterSave(w) ==
  /\ writers.proc[w].pc = "loaded"
  /\ \E ok \in BOOLEAN :
       LET p == writers.proc[w]
           r == WriteAndSave(store, p.wb, WriterRow(w, p.left), ok)
       IN /\ store' = r.store
          /\ writers' = [writers EXCEPT
                           !.proc[w] = [pc |-> "idle", wb |-> NoWb, left |-> p.left - 1],
                           !.saves = @ + (IF r.raised THEN 0 ELSE 1),
                           !.stale = @ + (IF ~r.raised /\ p.wb.rows # store.rows THEN 1 ELSE 0)]
  /\ UNCHANGED <<env, svc, source, agent, pool_llm, lang, runnerVars, poolVars, histVars, llm, report>>

WritersNext == \E w \in Writers : WriterLoad(w) \/ WriterSave(w)

\* two unserialized writers on one store
WritersSpec == InitWriters /\ [][WritersNext]_vars

\* The scripts on one source and one store: one execution of a bulk runner,
\* or a series of up to MaxRuns executions of process_simple / resume
Spec == Init /\ [][Next]_vars

\* A script that has entered its loop keeps running: the interpreter goes on
\* to the next statement, the executor's threads take the submitted tasks,
\* every call to the model service returns, and as_completed hands over
\* every completed future.  Starting a script is left to the user.
Fairness ==
  /\ WF_vars(SeqRow) /\ WF_vars(SeqFinish)
  /\ WF_vars(MainSave) /\ WF_vars(BatchEnd) /\ WF_vars(NextBatch)
  /\ \A r \in 2..(MaxRows + 1) :
       WF_vars(WorkerStart(r)) /\ WF_vars(WorkerFinish(r)) /\ WF_vars(MainTake(r))

FairSpec == Spec /\ Fairness

\* ------------------------------------- AIAgent.interactive_mode (ai_agent.py)
MaxInputs == 2

\* AIAgent(language, auto_detect_language): the speech-to-text module is built
\* as STTModule(use_whisper=True), that is with language 'hindi', auto_detect
\* False and therefore language_detector None (stt_module.py 24-33)
InitAgent ==
  /\ InitCommon
  /\ env = [api_key |-> TRUE, source_exists |-> FALSE, llm_takes_key |-> TRUE]
  /\ store = AbsentStore
  /\ svc \in Services /\ llm = NoLlm /\ pool_llm = NoPoolLlm
  /\ writers = NoWriters /\ lang = NoLang
  /\ \E l \in Languages, b \in BOOLEAN :
       agent = [pc |-> "on", language |-> l, auto_detect_language |-> b,
                stt_language |-> "hindi", stt_auto_detect |-> FALSE,
                language_detector |-> FALSE, tts_language |-> l,
                last |-> "none", inputs |-> 0]

\* AIAgent.set_language with STTModule.set_language and TTSModule.set_language
SetLanguage(a, l) ==
  IF l # a.language
  THEN [a EXCEPT !.language = l, !.stt_language = l, !.tts_language = l]
  ELSE a

\* the commands 'hindi', 'english', 'urdu', 'telugu' and 'lang:<language>'
CmdLanguage(l) ==
  /\ agent.pc = "on"
  /\ agent' = SetLanguage([agent EXCEPT !.auto_detect_language = FALSE], l)
  /\ UNCHANGED <<env, svc, source, pool_llm, writers, lang, store, runnerVars, poolVars, histVars,
                 llm, report>>

\* the command 'auto'
CmdAuto ==
  /\ agent.pc = "on"
  /\ agent' = [agent EXCEPT !.auto_detect_language = TRUE, !.stt_auto_detect = TRUE]
  /\ UNCHANGED <<env, svc, source, pool_llm, writers, lang, store, runnerVars, poolVars, histVars,
                 llm, report>>

\* the command 'manual'
CmdManual ==
  /\ agent.pc = "on"
  /\ agent' = [agent EXCEPT !.auto_detect_language = FALSE, !.stt_auto_detect = FALSE]
  /\ UNCHANGED <<env, svc, source, pool_llm, writers, lang, store, runnerVars, poolVars, histVars,
                 llm, report>>

\* ENTER, 'mic' or an audio file: process_voice_input.  heard is the language
\* a detector would report, speech tells whether the transcription is
\* non-empty.  STTModule.transcribe calls self.language_detector
\* .detect_language when auto_detect is set: on None that raises
\* AttributeError, which process_voice_input turns into an error result.  The
\* steps after the transcription are taken to succeed.
VoiceInput ==
  /\ agent.pc = "on"
  /\ \E heard \in Languages, speech \in BOOLEAN :
       LET raises == agent.stt_auto_detect /\ ~agent.language_detector
           stt_lang == IF agent.stt_auto_detect /\ ~raises THEN heard
                       ELSE agent.stt_language
           updates == /\ ~raises /\ speech /\ agent.auto_detect_language
                      /\ stt_lang # agent.language
       IN agent' = [agent EXCEPT
                      !.stt_language = stt_lang,
                      !.language = IF updates THEN stt_lang ELSE @,
                      !.tts_language = IF updates THEN stt_lang ELSE @,
                      !.last = IF raises THEN "error"
                               ELSE IF speech THEN "ok" ELSE "no_speech",
                      !.inputs = Min(@ + 1, MaxInputs)]
  /\ UNCHANGED <<env, svc, source, pool_llm, writers, lang, store, runnerVars, poolVars, histVars,
                 llm, report>>

AgentSpec ==
  InitAgent /\ [][(\E l \in Languages : CmdLanguage(l)) \/ CmdAuto \/ CmdManual \/ VoiceInput]_vars

\* ------------------------------------------------ repeated resume, services
\* a service that answers every request
AnsweringService ==
  [summary |-> { Behaviour(<<Outcome("ok", SummaryReply)>>, FALSE) },
   intent |-> { Behaviour(<<Outcome("ok", IntentReply)>>, FALSE) }]

\* a source, a header-only output file, and a service that answers
InitResume ==
  /\ InitCommon /\ Alone
  /\ svc = AnsweringService
  /\ env = [api_key |-> TRUE, source_exists |-> TRUE, llm_takes_key |-> TRUE]
  /\ store = OkStore(<<HeaderRow>>)

\* python resume_processing.py source limit, answered with 'y', any number
\* of times
ResumeAgain ==
  /\ pc \in Terminal
  /\ \E lim \in 1..MaxLimit :
       LET srow == FindLastProcessedRow(store) IN
       IF srow > total_rows THEN EndEarly("resume", "all_done")
       ELSE ProcessExcelSimple("resume", Min(lim, total_rows - srow + 1), srow)

\* resume_processing is invoked again and again, and each invocation runs on
ResumeFairSpec ==
  /\ InitResume
  /\ [][ResumeAgain \/ SeqRow \/ SeqFinish]_vars
  /\ WF_vars(ResumeAgain) /\ WF_vars(SeqRow) /\ WF_vars(SeqFinish)

\* the scripts against a service that answers with empty texts or fails
InitService == InitCommon /\ svc \in FaultyServices /\ Alone

ServiceSpec == InitService /\ [][Next]_vars

\* ------------------------------------------------------------- properties
\* the rows of the store that carry the audio name of source row r
StoreRowsOf(r) ==
  {i \in 1..Len(DataRows(store)) : DataRows(store)[i][1] = AudioName(r)}

\* C1: the fixed-pool runner (process_bulk_fast) that started on a store
\* with nothing but the header, whose workers all returned a result and
\* whose appends all succeeded, ends with exactly one data row per collected
\* source row, that row being the worker's result: none lost, none twice,
\* whatever the pool size and the order of completion.
C1_NoRowLostOrDuplicated ==
  (/\ kind = "fast" /\ pc = "done" /\ base_len = 1 /\ ~store_fault
   /\ \A r \in DOMAIN futures : futures[r].res.has)
  => /\ store.st = "ok"
     /\ store.rows[1] = HeaderRow
     /\ Len(DataRows(store)) = Len(rows_data)
     /\ \A r \in Range(rows_data) :
          /\ Cardinality(StoreRowsOf(r)) = 1
          /\ \A i \in StoreRowsOf(r) : DataRows(store)[i] = futures[r].res.row

\* a finished fast run of MaxRows rows on a pool of several threads, all
\* rows appended, the first appended row not being the first source row
C1_Witness ==
  /\ kind = "fast" /\ pc = "done" /\ base_len = 1 /\ ~store_fault
  /\ Len(rows_data) = MaxRows /\ max_workers >= 2
  /\ \A r \in DOMAIN futures : futures[r].res.has
  /\ processed = MaxRows
  /\ DataRows(store)[1][1] # AudioName(2)

\* C2: while a pool runner (process_bulk_fast, process_bulk_optimized) is
\* at work, the store changes only by the step of the main thread that
\* finishes the one append it has begun (pc = "save"): such a step leaves
\* every future as it is, so no step of a worker writes the store, and the
\* workbook loaded for an append exists only during that one append.
C2_OnlyMainThreadAppends ==
  [][ /\ (kind \in {"fast", "optimized"} /\ pc \notin Terminal /\ store' # store)
         => (/\ pc = "save" /\ pc' = "wait"
             /\ futures[cur].st = "taken" /\ futures' = futures
             /\ store'.rows = WriteRow(wb.rows, wb.next_row, futures[cur].res.row))
      /\ (futures' # futures /\ pc \notin Terminal) => store' = store
      /\ (wb' # NoWb) <=> (pc' = "save") ]_vars

\* the main thread is inside an append while two workers compute
C2_Witness ==
  /\ kind \in {"fast", "optimized"} /\ pc = "save" /\ wb # NoWb
  /\ Cardinality(Running) >= 2

\* the counter increments recorded for row r during the current run
Counted(r) == tally[r].p + tally[r].f + tally[r].s

\* C3: in the fixed-pool runner every collected row increments exactly one
\* counter - a row without transcript skipped and not failed - so that the
\* finished run has processed + failed + skipped = number of collected rows.
C3_FastOneCounterPerRow ==
  kind = "fast"
  => /\ \A r \in SourceRows :
          /\ Counted(r) <= 1
          /\ tally[r].out = "empty" => tally[r].f = 0
     /\ pc = "done" => processed + failed + skipped = Len(rows_data)

\* the rows of the range the current run works on
RowsInRange ==
  IF kind \in {"fast", "optimized"} THEN Range(rows_data)
  ELSE {r \in SourceRows : start_row <= r /\ r < end_row}

RECURSIVE TallySum(_, _)
\* the increments of counter c recorded for the rows 2 .. r
TallySum(c, r) == IF r < 2 THEN 0 ELSE tally[r][c] + TallySum(c, r - 1)

\* C4: in the sequential runner (process_simple, also when started by
\* resume_processing) and in the batched runner (process_bulk_optimized) the
\* three counters are the sums of the per-row increments, no row is counted
\* twice, a counted row lies in the range, a row without transcript counts
\* as skipped, a row whose process_text raised or returned nothing counts as
\* failed, a row counted as processed had a result and is in the store, and
\* when the run is done every row of the range has been counted once, so
\* that processed + failed + skipped is the number of rows in the range.
C4_OneCounterPerRow ==
  kind \in {"simple", "resume", "optimized"}
  => /\ processed = TallySum("p", total_rows)
     /\ failed = TallySum("f", total_rows)
     /\ skipped = TallySum("s", total_rows)
     /\ \A r \in SourceRows :
          /\ Counted(r) <= 1
          /\ Counted(r) = 1 => r \in RowsInRange
          /\ (tally[r].out = "empty") <=> (tally[r].s = 1)
          /\ tally[r].s = 1 => IsBlank(source[r - 1].text)
          /\ tally[r].out \in {"raised", "none"} => tally[r].f = 1
          /\ tally[r].p = 1 => (tally[r].out = "result" /\ StoreRowsOf(r) # {})
          /\ (tally[r].out = "result" /\ ~store_fault) => tally[r].p = 1
     /\ pc = "done"
          => /\ \A r \in RowsInRange : Counted(r) = 1
             /\ processed + failed + skipped = Cardinality(RowsInRange)

\* the batched runner has finished three rows in two batches: one appended,
\* one whose process_text raised, one without transcript
C4_Witness ==
  /\ kind = "optimized" /\ pc = "done" /\ pauses >= 1 /\ ~store_fault
  /\ processed = 1 /\ failed = 1 /\ skipped = 1
  /\ \E r \in RowsInRange : tally[r].out = "raised"

\* a script is inside its loop over the rows
Active == pc \in {"loop", "wait", "save", "pause"}

\* C5: whatever rows raise, a runner (sequential, fixed-pool, batched) that
\* has entered its loop reaches its final summary (pc = "done"), and
\* by then every row of its range has been counted: no exception of a row
\* ends the run before the remaining rows are visited.
C5_RunsToTheEnd ==
  Active ~> (pc = "done" /\ \A r \in RowsInRange : Counted(r) >= 1)

\* a sequential run is done whose first row raised and whose last row, two
\* rows later, was appended
C5_Witness ==
  /\ kind = "simple" /\ pc = "done" /\ start_row = 2 /\ end_row = 5
  /\ tally[2].out = "raised" /\ tally[4].p = 1

\* C6: once load_workbook or wb.save has failed inside save_to_excel, the
\* runner counts no further row and moves to no further row, and the step in
\* which the failure happens does not count the row as failed.
C6_PersistenceFailureAborts ==
  [][ Active
      => /\ (~store_fault /\ store_fault') => failed' = failed
         /\ store_fault => /\ processed' = processed /\ failed' = failed
                           /\ skipped' = skipped /\ row_idx' = row_idx ]_vars

\* the service fails twice with a rate-limit error, then answers
RateLimitScript ==
  << Outcome("err", RateLimitMsg), Outcome("err", RateLimitMsg),
     Outcome("ok", IntentReply) >>

\* C7: when the service fails twice with a rate-limit error and answers the
\* third call, analyze has called it three times, has waited twice and
\* returns the intent parsed from the third reply.
C7_RateLimitRetried ==
  (llm.pc = "done" /\ ~IsBlank(llm.text) /\ llm.script = RateLimitScript)
  => /\ llm.calls = 3
     /\ llm.waits = 2
     /\ llm.intent = ParseResponse([isNone |-> FALSE, val |-> IntentReply])

\* C8: after process_simple from row 2 on a store without data rows,
\* followed by resume_processing runs, a resumed loop has before it only
\* source rows of which the store holds no result.
C8_ResumeNeverReprocesses ==
  (orderly /\ kind = "resume" /\ pc = "loop")
  => \A r \in SourceRows : (row_idx <= r /\ r < end_row) => StoreRowsOf(r) = {}

\* C9: from the initialization of a run on, while the store is readable,
\* its row count (max row - 1) is the number of data rows it had after the
\* initialization plus the appends that succeeded since, and the resume
\* locator's next row is that number plus 2: n and n + 2 after n appends
\* on a header-only store.  check_progress prints that row count.  Without a
\* store the row count is 0 and the next row is 2.
C9_RowCountAndNextRow ==
  /\ (store.st = "ok" /\ base_len >= 1)
       => /\ ProcessedRows(store) = (base_len - 1) + processed
          /\ FindLastProcessedRow(store) = (base_len - 1) + processed + 2
  /\ (report.st = "ok" /\ store.st = "ok" /\ base_len >= 1)
       => report.processed = (base_len - 1) + processed
  /\ store.st = "absent"
       => ProcessedRows(store) = 0 /\ FindLastProcessedRow(store) = 2
  /\ (report.st = "ok" /\ store.st = "absent") => report.processed = 0

\* a run on a header-only store has appended MaxRows rows and check_progress
\* has printed the count
C9_Witness ==
  /\ store.st = "ok" /\ base_len = 1 /\ processed = MaxRows
  /\ report.st = "ok" /\ report.processed = MaxRows
  /\ FindLastProcessedRow(store) = MaxRows + 2

\* the rows of a sheet that equal the header
HeaderCount(rows) == Cardinality({i \in 1..Len(rows) : rows[i] = HeaderRow})

C11_AppendFrame ==
  [][processed' = processed + 1 =>
       LET n == MaxRow(store.rows) + 1 IN
       /\ store.st = "ok" /\ store'.st = "ok"
       /\ Len(store'.rows) = n
       /\ \A i \in 1..Len(store.rows) : store'.rows[i] = store.rows[i]
       /\ ProcessedRows(store') = ProcessedRows(store) + 1
       /\ \E r \in SourceRows, sv \in svc.summary, iv \in svc.intent :
            LET res == ProcessTable[Strip(source[r - 1].text), source[r - 1].audio, sv, iv] IN
            /\ tally'[r].p = tally[r].p + 1
            /\ res.kind = "result"
            /\ store'.rows[n] = res.row
            /\ store'.rows[n][1] = source[r - 1].audio
            /\ store'.rows[n][2] = Strip(source[r - 1].text)]_vars

\* rows were appended below the header and the row of an earlier run
C11_Witness ==
  /\ pc = "done" /\ processed >= 2
  /\ Len(store.rows) = base_len + processed
  /\ store.rows[1] = HeaderRow /\ store.rows[2] = OldRow
  /\ store.rows[Len(store.rows)][4] = <<"p","w","r"," ","c","u","t">>

\* C12: on an output file that cannot be read, the append raises, and so
\* does the next-row lookup: resume_processing started on such a file (with
\* its source in place) ends with an error instead of going on from a row
\* number the lookup returned.
C12_UnreadableStoreRaises ==
  [][/\ LoadForSave(CorruptStore).raised
     /\ \A row \in {OldRow}, ok \in BOOLEAN : SaveToExcel(CorruptStore, row, ok).raised
     /\ (store.st = "corrupt" /\ env.source_exists /\ kind' = "resume" /\ nruns' = nruns + 1
           => pc' = "crashed")]_vars

\* C13: with two writers on one store, the data rows never exceed the rows
\* there at the start plus the successful appends; they equal that sum as
\* long as no append was made from a workbook loaded before the other
\* writer's save, and fall short of it once such an append has been made.
C13_StaleAppendLosesRows ==
  LET n == Len(DataRows(store)) IN
  /\ n <= writers.base + writers.saves
  /\ (writers.stale = 0 => n = writers.base + writers.saves)
  /\ (writers.stale > 0 => n < writers.base + writers.saves)

\* both writers read the same max row, both appends succeeded, and the
\* store holds one row more than at the start
C13_Witness ==
  /\ \A w \in Writers : writers.proc[w].pc = "idle" /\ writers.proc[w].left = 0
  /\ writers.saves = 2 /\ writers.stale = 1
  /\ Len(DataRows(store)) = writers.base + 1

\* the punctuation characters of the replies
Punctuation == PunctChars \cup QuoteChars \cup {"-", "_"}

\* C14: whatever the model replied, the intent that analyze returns has at
\* most 3 whitespace-separated tokens, every token is lower-case, and no
\* token begins or ends with a punctuation character.
C14_IntentTokensClean ==
  llm.pc = "done" =>
    LET ws == SplitWS(llm.intent) IN
    /\ Len(ws) <= 3
    /\ \A i \in 1..Len(ws) :
         /\ ws[i] = Lower(ws[i])
         /\ ws[i][1] \notin Punctuation
         /\ ws[i][Len(ws[i])] \notin Punctuation

\* what is left of a reply after the label, the quotes and the trailing
\* punctuation are stripped
Reduced(reply) ==
  StripTrailingPunct(StripSet(Strip(StripLabel(Strip(reply))), QuoteChars))

\* C15: for a reply that is empty or whitespace-only, or of which nothing is
\* left after label, quote and punctuation stripping, the intent is
\* "unknown".
C15_EmptyReplyIsUnknown ==
  (llm.pc = "done" /\ llm.script[1].kind = "ok" /\ IsBlank(Reduced(RawReply)))
    => llm.intent = UnknownIntent

\* C16: the intent cell of every data row of the output store is non-empty,
\* lower-case and has 1 to 3 tokens, whatever the service replied.
C16_StoredIntentWellFormed ==
  \A i \in 1..Len(DataRows(store)) :
    LET intent == DataRows(store)[i][4] IN
    /\ intent # <<>>
    /\ intent = Lower(intent)
    /\ Len(SplitWS(intent)) \in 1..3

\* the highest of the four script-character counts of the classified text
MaxScriptCount ==
  LET c == ScriptChars(lang.text) IN
  CHOOSE n \in {c[l] : l \in Languages} : \A l \in Languages : c[l] <= n

\* the languages whose ratio is the highest
TopLanguages == {l \in Languages : ScriptChars(lang.text)[l] = MaxScriptCount}

\* C17: the classifier returns the configured default whenever the text has
\* no alphanumeric character or its highest ratio (script characters by
\* alphanumeric characters) is at most 0.10, whichever language has it; a
\* result other than the default has a ratio strictly above 0.10.
C17_DefaultUpToThreshold ==
  lang.pc = "done" =>
    /\ (TotalChars(lang.text) = 0 \/ 10 * MaxScriptCount <= TotalChars(lang.text))
         => lang.result = lang.default
    /\ lang.result # lang.default
         => /\ TotalChars(lang.text) > 0
            /\ 10 * ScriptChars(lang.text)[lang.result] > TotalChars(lang.text)

\* a text whose highest ratio is exactly 0.10, held by a language other than
\* the default, classified as the default
C17_Witness ==
  /\ lang.pc = "done"
  /\ TotalChars(lang.text) > 0
  /\ 10 * MaxScriptCount = TotalChars(lang.text)
  /\ lang.default \notin TopLanguages
  /\ lang.result = lang.default

\* the first of the keys, in the given order, that is in the set
FirstOf(keys, S) ==
  keys[CHOOSE k \in 1..Len(keys) : keys[k] \in S /\ \A j \in 1..(k - 1) : keys[j] \notin S]

\* the highest ratio is above 0.10
AboveThreshold ==
  TotalChars(lang.text) > 0 /\ 10 * MaxScriptCount > TotalChars(lang.text)

\* C18, as amended: when the highest ratio is above 0.10, the classifier
\* returns the language that comes first in the order telugu, hindi, urdu,
\* english among those that share it.
C18_TieBreakCodeOrder ==
  (lang.pc = "done" /\ AboveThreshold)
    => lang.result = FirstOf(RatioKeys, TopLanguages)

\* two languages share the highest ratio and neither is the default
C18_Witness ==
  /\ lang.pc = "done" /\ AboveThreshold
  /\ TopLanguages = {"urdu", "english"}
  /\ lang.default = "hindi"
  /\ lang.result = "urdu"

\* C18, as stated: when two or more languages share the highest ratio
\* (above 0.10), the classifier returns the one that comes first in the
\* order hindi, english, urdu, telugu.
C18_TieBreakSpecOrder ==
  (lang.pc = "done" /\ AboveThreshold)
    => lang.result = FirstOf(<<"hindi", "english", "urdu", "telugu">>, TopLanguages)

\* every call of the analyze call's script raises
AllCallsFail == \A i \in 1..Len(llm.script) : llm.script[i].kind = "err"

ApologyIntent == <<"i"," ","a","p","o","l","o","g","i","z","e"," ","b","u","t">>

\* C19: when the service fails during the intent request for a non-empty
\* text, analyze returns the intent "unknown"; no failure of the service
\* gives an intent made of the words of an error message.
C19_ServiceFailureIsUnknown ==
  (llm.pc = "done" /\ ~IsBlank(llm.text))
    => /\ (AllCallsFail => llm.intent = UnknownIntent)
       /\ llm.intent # ApologyIntent

\* the service fails during every summary request
SummaryFails == \A sv \in svc.summary : \A i \in 1..Len(sv.script) : sv.script[i].kind = "err"

\* C20: when the service fails during the summary request of a row,
\* process_text raises: the row is counted as failed, is not counted as
\* processed, and no row is appended for it.
C20_SummaryFailureFailsRow ==
  SummaryFails
    => /\ processed = 0
       /\ \A r \in SourceRows :
            /\ tally[r].p = 0
            /\ StoreRowsOf(r) = {}
            /\ tally[r].out \in {"unseen", "empty", "raised"}
            /\ (tally[r].out = "raised" => tally[r].f = 1)

\* C21: for an empty or whitespace-only text no request goes to the service:
\* analyze returns the intent "", process_text returns None, and
\* process_single leaves the store as it was.
C21_BlankTextNoRequest ==
  [][IsBlank(llm.text) =>
       /\ llm'.calls = 0
       /\ llm'.intent = <<>>
       /\ store' = store
       /\ (llm.pc = "single" => llm'.out = "none")]_vars

\* process_single was called with a whitespace-only text on a store that
\* holds a row
C21_Witness ==
  /\ llm.pc = "done" /\ llm.text = <<"\t","\n">>
  /\ llm.out = "none" /\ llm.calls = 0
  /\ store = UsedStore

C23_BatchesOneAfterAnother ==
  (kind = "optimized" /\ pc \in {"wait", "save", "pause", "done"}) =>
    LET n == Len(rows_data)
        batchOf(i) == (i - 1) \div batch_size
        inFlight == {r \in DOMAIN futures : futures[r].st \in {"pending", "running", "done"}}
    IN /\ \A i, j \in 1..n :
            (batchOf(i) < batchOf(j) /\ futures[rows_data[j]].st # "unsubmitted")
              => /\ futures[rows_data[i]].st = "taken"
                 /\ Counted(rows_data[i]) = 1
                 /\ (tally[rows_data[i]].out = "result"
                       => (tally[rows_data[i]].p = 1 \/ tally[rows_data[i]].f = 1))
       /\ Cardinality(inFlight) <= batch_size
       /\ pauses = (batch_num \div batch_size) + (IF pc = "pause" THEN 1 ELSE 0)
       /\ pc = "done" =>
            pauses = (IF n = 0 THEN 0 ELSE ((n + batch_size - 1) \div batch_size) - 1)

\* three rows went through three batches of one row, with two pauses
C23_Witness ==
  /\ kind = "optimized" /\ pc = "done"
  /\ batch_size = 1 /\ Len(rows_data) = 3
  /\ pauses = 2 /\ processed >= 1

\* C24: resume invocations repeated on a header-only store, each confirmed,
\* with no row failing and no store access raising, eventually reach the
\* invocation that reports that all rows are already processed.
C24_ResumeReachesAllDone ==
  [](failed = 0 /\ ~store_fault /\ pc # "crashed") => <>(pc = "all_done")

\* C25: while only process_simple from row 2 on a store without data rows
\* and resume_processing have run, the store never holds more data rows than
\* the source, and the remaining-rows count check_progress prints is not
\* negative.
C25_StoreNeverExceedsSource ==
  orderly
  => /\ Len(DataRows(store)) <= Len(source)
     /\ ProcessedRows(store) <= total_rows - 1
     /\ report.st = "ok" => report.remaining >= 0

C25_Witness ==
  /\ orderly /\ nruns = 2 /\ kind = "resume" /\ pc = "done" /\ processed >= 1
  /\ Len(source) >= 2 /\ Len(DataRows(store)) = Len(source)
  /\ report.st = "ok" /\ report.remaining = 0

\* the service fails during every intent request
IntentFails == \A iv \in svc.intent : \A i \in 1..Len(iv.script) : iv.script[i].kind = "err"

\* C26: when the service answers the summary request of a row and fails
\* during its intent request, process_text still returns a result: the row
\* is counted as processed and not as failed when its append succeeds, and
\* the row appended for it carries the intent "unknown".
C26_IntentFailureGivesUnknownRow ==
  (IntentFails /\ ~SummaryFails)
    => \A r \in SourceRows :
         /\ tally[r].out \in {"unseen", "empty", "result"}
         /\ (tally[r].out = "result" /\ ~store_fault)
              => (tally[r].p = 1 /\ tally[r].f = 0)
         /\ \A i \in StoreRowsOf(r) : DataRows(store)[i][4] = UnknownIntent

\* C27: the start of a script, which is where the store is initialized,
\* leaves the data rows of the output file as they were, whatever the state
\* of the file before.
C27_InitKeepsDataRows ==
  [][nruns' = nruns + 1 => DataRows(store') = DataRows(store)]_vars

\* C28: the rows' processing leaves the processor's shared state as it was
\* built (default language, model), and what a row gets from the shared
\* LLMModule is what it gets when it is processed on its own, in whatever
\* order the worker threads run.
C28_RowsIndependent ==
  pool_llm.pc = "on"
  => /\ pool_llm.language = "hindi"
     /\ pool_llm.model_name = "phi3"
     /\ \A r \in 1..MaxSharedRows :
          pool_llm.st[r] = "done"
          => pool_llm.val[r] = Generate(ChatScript("phi3", pool_llm.load[r]), pool_llm.tiny).val

\* C29: the sequential runner called with start_row s and limit L on a source
\* whose last row is T has at every moment visited the rows from s up to the
\* one before its current row, each once, and no other row; it ends after
\* row min(s + L - 1, T), so that it has visited exactly s .. min(s + L - 1, T)
\* in increasing order (no row when s > T).
C29_VisitsExactRange ==
  (kind \in {"simple", "resume"} /\ pc \in {"loop", "done"})
  => LET last == Min(start_row + limit - 1, total_rows) IN
     /\ limit >= 1
     /\ start_row <= row_idx
     /\ row_idx <= (IF start_row <= last THEN last + 1 ELSE start_row)
     /\ \A r \in SourceRows :
          Counted(r) = (IF start_row <= r /\ r < row_idx THEN 1 ELSE 0)
     /\ pc = "done" => row_idx = (IF start_row <= last THEN last + 1 ELSE start_row)

C29_Witness ==
  /\ kind = "simple" /\ pc = "done" /\ total_rows = 4
  /\ start_row = 3 /\ limit = 1 /\ row_idx = 4
  /\ Counted(2) = 0 /\ Counted(3) = 1 /\ Counted(4) = 0

\* C30: in the interactive agent, whatever commands and voice inputs came
\* before, a speech-to-text module with automatic detection enabled has a
\* language detector, and no voice input has ended in the error result of
\* a raised exception.
C30_AutoDetectHasDetector ==
  agent.pc = "on"
  => /\ agent.stt_auto_detect => agent.language_detector
     /\ agent.last # "error"

====
